---- MODULE Spec2Model ----
(***************************************************************************)
(* BLAKE2s compression function, AltiVec version (blake2s-altivec.c).      *)
(*                                                                         *)
(* Memory is modelled as the target sees it: a big-endian PowerPC, so a    *)
(* u32 in memory (and a vu32 lane in a register) is four bytes, most       *)
(* significant first.  A vector register is a tuple of 16 bytes; lane j of *)
(* a vu32 is bytes 4j..4j+3.  Tuples are 1-based, byte offsets 0-based.    *)
(***************************************************************************)
EXTENDS Integers, Sequences, FiniteSets

VARIABLES
    ctxH,    \* ctx->H, 32 bytes of memory (8 u32, big-endian in memory)
    ctxTF,   \* ctx->t[0..1], ctx->f[0..1], 16 bytes of memory
    msg,     \* the 64 bytes of the message block
    pc,      \* position of the call in blake2s_compress / blake2s_10rounds
    k,       \* number of FULLROUND statements completed
    Hloc,    \* local H[2] of blake2s_compress
    va, vb, vc, vd, vpr,
    msl,     \* the bytesliced message, 64 bytes
    mv,      \* mv[0..3]
    m1, m2, m3, m4,
    order,   \* the halves of the FULLROUND statements executed: <<r, phase>>
    entry,   \* the inputs of the call in progress (at its entry)
    log,     \* the completed calls: inputs and resulting H
    calls    \* number of calls started

vars == <<ctxH, ctxTF, msg, pc, k, Hloc, va, vb, vc, vd, vpr, msl, mv,
          m1, m2, m3, m4, order, entry, log, calls>>

----------------------------------------------------------------------------
(* Bytes and bit operations *)

\* the 16 bytes F(0), ..., F(15) of a vector register
Vec16(F(_)) ==
    << F(0), F(1), F(2),  F(3),  F(4),  F(5),  F(6),  F(7),
       F(8), F(9), F(10), F(11), F(12), F(13), F(14), F(15) >>

Bit(a, p) == (a \div p) % 2

\* bitwise xor and and of two 4-bit values, tabulated
XorNibble ==
    Vec16(LAMBDA a : Vec16(LAMBDA b :
          ((Bit(a, 1) + Bit(b, 1)) % 2)     + ((Bit(a, 2) + Bit(b, 2)) % 2) * 2
        + ((Bit(a, 4) + Bit(b, 4)) % 2) * 4 + ((Bit(a, 8) + Bit(b, 8)) % 2) * 8))

AndNibble ==
    Vec16(LAMBDA a : Vec16(LAMBDA b :
          (Bit(a, 1) * Bit(b, 1))     + (Bit(a, 2) * Bit(b, 2)) * 2
        + (Bit(a, 4) * Bit(b, 4)) * 4 + (Bit(a, 8) * Bit(b, 8)) * 8))

xor8(a, b) ==
    XorNibble[(a \div 16) + 1][(b \div 16) + 1] * 16 + XorNibble[(a % 16) + 1][(b % 16) + 1]

and8(a, b) ==
    AndNibble[(a \div 16) + 1][(b \div 16) + 1] * 16 + AndNibble[(a % 16) + 1][(b % 16) + 1]

or8(a, b) == a + b - and8(a, b)

\* for each bit: if the bit in z is set, pick y, else x
sel8(x, y, z) == or8(and8(x, 255 - z), and8(y, z))

----------------------------------------------------------------------------
(* AltiVec operations *)

Splat(w) == w \o w \o w \o w

Lane(v, j) == << v[4*j + 1], v[4*j + 2], v[4*j + 3], v[4*j + 4] >>

vec_xor(x, y) == Vec16(LAMBDA i : xor8(x[i + 1], y[i + 1]))

vec_and(x, y) == Vec16(LAMBDA i : and8(x[i + 1], y[i + 1]))

vec_or(x, y) == Vec16(LAMBDA i : or8(x[i + 1], y[i + 1]))

vec_sel(x, y, z) == Vec16(LAMBDA i : sel8(x[i + 1], y[i + 1], z[i + 1]))

\* shift concat(x,y) left by n bytes
vec_sld(x, y, n) == LET c == x \o y IN Vec16(LAMBDA i : c[i + n + 1])

\* pick bytes by index in p from concat(v,w)
vec_perm(v, w, p) == LET c == v \o w IN Vec16(LAMBDA i : c[(p[i + 1] % 32) + 1])

vec_mergeh(x, y) == Lane(x, 0) \o Lane(y, 0) \o Lane(x, 1) \o Lane(y, 1)

vec_mergel(x, y) == Lane(x, 2) \o Lane(y, 2) \o Lane(x, 3) \o Lane(y, 3)

\* load 16 bytes at byte offset off of mem
vec_ld(off, mem) == Vec16(LAMBDA i : mem[off + i + 1])

\* store 16 bytes at byte offset off of mem
vec_st(v, off, mem) ==
    SubSeq(mem, 1, off) \o v \o SubSeq(mem, off + 17, Len(mem))

\* one 32-bit lane: x + y modulo 2^32, bytes most significant first
Add32(x, y) ==
    LET s3 == x[4] + y[4]
        s2 == x[3] + y[3] + (s3 \div 256)
        s1 == x[2] + y[2] + (s2 \div 256)
        s0 == x[1] + y[1] + (s1 \div 256)
    IN  << s0 % 256, s1 % 256, s2 % 256, s3 % 256 >>

vec_add(x, y) ==
    Add32(Lane(x, 0), Lane(y, 0)) \o Add32(Lane(x, 1), Lane(y, 1)) \o
    Add32(Lane(x, 2), Lane(y, 2)) \o Add32(Lane(x, 3), Lane(y, 3))

\* one 32-bit lane rotated left by n bits, 0 <= n < 32
Rotl32(w, n) ==
    LET q == n \div 8
        s == n % 8
        B(i) == w[((i + q) % 4) + 1]
        R(i) == ((B(i) * (2 ^ s)) % 256) + (B(i + 1) \div (2 ^ (8 - s)))
    IN  << R(0), R(1), R(2), R(3) >>

\* each lane of v rotated left by the low 5 bits of the same lane of l
vec_rl(v, l) ==
    Rotl32(Lane(v, 0), l[4] % 32)  \o Rotl32(Lane(v, 1), l[8] % 32) \o
    Rotl32(Lane(v, 2), l[12] % 32) \o Rotl32(Lane(v, 3), l[16] % 32)

----------------------------------------------------------------------------
(* Constant tables *)

vr1 == Splat(<<0, 0, 0, 16>>)
\* the right-rotation count of the specification handed to the left rotation
vr2_RightCount == Splat(<<0, 0, 0, 12>>)

vr2 == Splat(<<0, 0, 0, 20>>)
vr3 == Splat(<<0, 0, 0, 24>>)
vr4 == Splat(<<0, 0, 0, 25>>)

\* the table with a slip in its last row: 13 written twice, 12 missing
blake2s_vsigma_Slip ==
    << <<  0,  1,  2,  3,  4,  5,  6,  7,  8,  9, 10, 11, 12, 13, 14, 15 >>,
       << 14, 10,  4,  8,  9, 15, 13,  6,  1, 12,  0,  2, 11,  7,  5,  3 >>,
       << 11,  8, 12,  0,  5,  2, 15, 13, 10, 14,  3,  6,  7,  1,  9,  4 >>,
       <<  7,  9,  3,  1, 13, 12, 11, 14,  2,  6,  5, 10,  4,  0, 15,  8 >>,
       <<  9,  0,  5,  7,  2,  4, 10, 15, 14,  1, 11, 12,  6,  8,  3, 13 >>,
       <<  2, 12,  6, 10,  0, 11,  8,  3,  4, 13,  7,  5, 15, 14,  1,  9 >>,
       << 12,  5,  1, 15, 14, 13,  4, 10,  0,  7,  6,  3,  9,  2,  8, 11 >>,
       << 13, 11,  7, 14, 12,  1,  3,  9,  5,  0, 15,  4,  8,  6,  2, 10 >>,
       <<  6, 15, 14,  9, 11,  3,  0,  8, 12,  2, 13,  7,  1,  4, 10,  5 >>,
       << 10,  2,  8,  4,  7,  6,  1,  5, 15, 11,  9, 14,  3, 13, 13,  0 >> >>

blake2s_vsigma ==
    << <<  0,  1,  2,  3,  4,  5,  6,  7,  8,  9, 10, 11, 12, 13, 14, 15 >>,
       << 14, 10,  4,  8,  9, 15, 13,  6,  1, 12,  0,  2, 11,  7,  5,  3 >>,
       << 11,  8, 12,  0,  5,  2, 15, 13, 10, 14,  3,  6,  7,  1,  9,  4 >>,
       <<  7,  9,  3,  1, 13, 12, 11, 14,  2,  6,  5, 10,  4,  0, 15,  8 >>,
       <<  9,  0,  5,  7,  2,  4, 10, 15, 14,  1, 11, 12,  6,  8,  3, 13 >>,
       <<  2, 12,  6, 10,  0, 11,  8,  3,  4, 13,  7,  5, 15, 14,  1,  9 >>,
       << 12,  5,  1, 15, 14, 13,  4, 10,  0,  7,  6,  3,  9,  2,  8, 11 >>,
       << 13, 11,  7, 14, 12,  1,  3,  9,  5,  0, 15,  4,  8,  6,  2, 10 >>,
       <<  6, 15, 14,  9, 11,  3,  0,  8, 12,  2, 13,  7,  1,  4, 10,  5 >>,
       << 10,  2,  8,  4,  7,  6,  1,  5, 15, 11,  9, 14,  3, 12, 13,  0 >> >>

\* 0x6a09e667 0xbb67ae85 0x3c6ef372 0xa54ff53a / 0x510e527f 0x9b05688c 0x1f83d9ab 0x5be0cd19
blake2s_viv ==
    << <<106, 9, 230, 103>> \o <<187, 103, 174, 133>> \o
       <<60, 110, 243, 114>> \o <<165, 79, 245, 58>>,
       <<81, 14, 82, 127>> \o <<155, 5, 104, 140>> \o
       <<31, 131, 217, 171>> \o <<91, 224, 205, 25>> >>

mask_1 == Splat(<<255, 0, 0, 0>>)
mask_2 == Splat(<<0, 255, 0, 0>>)
mask_3 == Splat(<<0, 0, 255, 0>>)
mask_4 == Splat(<<0, 0, 0, 255>>)

----------------------------------------------------------------------------
(* blake2s_10rounds *)

\* byteslicing without the byte-order reversal: plane p holds byte p of every word
ByteSlice_NoSwap(m) ==
    Vec16(LAMBDA i : m[i*4 + 0 + 1]) \o Vec16(LAMBDA i : m[i*4 + 1 + 1]) \o
    Vec16(LAMBDA i : m[i*4 + 2 + 1]) \o Vec16(LAMBDA i : m[i*4 + 3 + 1])

\* msl after the byteslicing loop: plane p holds byte 3-p of every word
ByteSlice(m) ==
    Vec16(LAMBDA i : m[i*4 + 3 + 1]) \o Vec16(LAMBDA i : m[i*4 + 2 + 1]) \o
    Vec16(LAMBDA i : m[i*4 + 1 + 1]) \o Vec16(LAMBDA i : m[i*4 + 0 + 1])

LoadMv(sl) == << vec_ld(0, sl), vec_ld(16, sl), vec_ld(32, sl), vec_ld(48, sl) >>

ror(l, v) == vec_rl(v, l)

\* the values of (a, b, c, d) after BLAKE2S_VG(M,N,a,b,c,d)
BLAKE2S_VG(M, N, a, b, c, d) ==
    LET a1 == vec_add(a, vec_add(b, M))
        d1 == ror(vr1, vec_xor(d, a1))
        c1 == vec_add(c, d1)
        b1 == ror(vr2, vec_xor(b, c1))
        a2 == vec_add(a1, vec_add(b1, N))
        d2 == ror(vr3, vec_xor(d1, a2))
        c2 == vec_add(c1, d2)
        b2 == ror(vr4, vec_xor(b1, c2))
    IN  << a2, b2, c2, d2 >>

SELW(x, y, z, w) ==
    vec_or(vec_sel(vec_and(x, mask_1), y, mask_2),
           vec_sel(vec_and(z, mask_3), w, mask_4))

\* the step of the permutation vector between two byte planes
PermStep(perm) == vec_sld(perm, perm, 15)

\* m1, m2, m3, m4 as FULLROUND(r) leaves them before the first BLAKE2S_VG
Schedule(r, mvv) ==
    LET p1 == blake2s_vsigma[r + 1]
        p2 == PermStep(p1)
        p3 == PermStep(p2)
        p4 == PermStep(p3)
        b1 == vec_perm(mvv[1], mvv[1], p1)
        b2 == vec_perm(mvv[2], mvv[2], p2)
        b3 == vec_perm(mvv[3], mvv[3], p3)
        b4 == vec_perm(mvv[4], mvv[4], p4)
        ra == SELW(b1, b2, b3, b4)
        rc0 == SELW(b4, b1, b2, b3)
        rc == vec_sld(rc0, rc0, 1)
        rb0 == SELW(b3, b4, b1, b2)
        rb == vec_sld(rb0, rb0, 2)
        rd0 == SELW(b2, b3, b4, b1)
        rd == vec_sld(rd0, rd0, 3)
    IN  << vec_mergeh(ra, rb), vec_mergeh(rc, rd),
           vec_mergel(ra, rb), vec_mergel(rc, rd) >>

\* the round driver with its last statement missing
Rounds_Short == << 0, 1, 2, 3, 4, 5, 6, 7, 8 >>

\* the arguments of the FULLROUND statements, in program order
Rounds == << 0, 1, 2, 3, 4, 5, 6, 7, 8, 9 >>

\* the lane rotations before and after the diagonal BLAKE2S_VG
Diagonalize(s) ==
    << s[1], vec_sld(s[2], s[2], 4), vec_sld(s[3], s[3], 8), vec_sld(s[4], s[4], 12) >>

\* the rotation repeated instead of undone
Undiagonalize_Repeat(s) ==
    << s[1], vec_sld(s[2], s[2], 4), vec_sld(s[3], s[3], 8), vec_sld(s[4], s[4], 12) >>

Undiagonalize(s) ==
    << s[1], vec_sld(s[2], s[2], 12), vec_sld(s[3], s[3], 8), vec_sld(s[4], s[4], 4) >>

----------------------------------------------------------------------------
(* blake2s_compress *)

\* the load without the xor of t and f into the IV
LoadState_NoXor(h, tf) ==
    LET pr == vec_ld(0, tf)
    IN  [ H0 |-> vec_ld(0, h), H1 |-> vec_ld(16, h), vpr |-> pr,
          vc |-> blake2s_viv[1], vd |-> blake2s_viv[2] ]

\* the load with the flag words left out of vpr
LoadState_NoFlags(h, tf) ==
    LET pr == SubSeq(vec_ld(0, tf), 1, 8) \o <<0, 0, 0, 0>> \o <<0, 0, 0, 0>>
    IN  [ H0 |-> vec_ld(0, h), H1 |-> vec_ld(16, h), vpr |-> pr,
          vc |-> blake2s_viv[1], vd |-> vec_xor(blake2s_viv[2], pr) ]

\* the load that sets vc once and keeps it from call to call
LoadState_KeepVc(h, tf) ==
    LET pr == vec_ld(0, tf)
    IN  [ H0 |-> vec_ld(0, h), H1 |-> vec_ld(16, h), vpr |-> pr,
          vc |-> IF calls = 1 THEN blake2s_viv[1] ELSE vc,
          vd |-> vec_xor(blake2s_viv[2], pr) ]

\* va, vb, vc, vd, vpr, H[0], H[1] after the loads and the IV setup
LoadState(h, tf) ==
    LET pr == vec_ld(0, tf)
    IN  [ H0 |-> vec_ld(0, h), H1 |-> vec_ld(16, h), vpr |-> pr,
          vc |-> blake2s_viv[1], vd |-> vec_xor(blake2s_viv[2], pr) ]

\* the two stores with their offsets exchanged
StoreH_Swapped(h, tf, x0, x1) ==
    [ H |-> vec_st(x1, 0, vec_st(x0, 16, h)), TF |-> tf ]

\* a store of 16 bytes too many, which runs over t and f
StoreH_Overrun(h, tf, x0, x1) ==
    [ H |-> vec_st(x1, 16, vec_st(x0, 0, h)), TF |-> x1 ]

\* the context after the two vec_st
StoreH(h, tf, x0, x1) ==
    [ H |-> vec_st(x1, 16, vec_st(x0, 0, h)), TF |-> tf ]

----------------------------------------------------------------------------
(* Inputs *)

Zero16 == Splat(<<0, 0, 0, 0>>)

\* the BLAKE2s-256 initial chaining value (IV with 0x01010020 xored into H[0])
HInit == (<<107, 8, 230, 71>> \o SubSeq(blake2s_viv[1], 5, 16)) \o blake2s_viv[2]

HOnes == Splat(<<255, 255, 255, 255>>) \o Splat(<<255, 255, 255, 254>>)

\* t[0], t[1], f[0], f[1]
TFAbc   == <<0, 0, 0, 3>>  \o <<0, 0, 0, 0>> \o <<255, 255, 255, 255>> \o <<0, 0, 0, 0>>
TFFirst == <<0, 0, 0, 64>> \o <<0, 0, 0, 0>> \o <<0, 0, 0, 0>> \o <<0, 0, 0, 0>>
TFLast  == <<0, 0, 0, 64>> \o <<0, 0, 0, 0>> \o <<255, 255, 255, 255>> \o <<0, 0, 0, 0>>
TFNode  == <<255, 255, 255, 192>> \o <<0, 0, 0, 1>> \o <<255, 255, 255, 255>> \o <<255, 255, 255, 255>>

MsgAbc   == <<97, 98, 99>> \o [i \in 1..61 |-> 0]
MsgCount == [i \in 1..64 |-> i - 1]
MsgOnes  == [i \in 1..64 |-> 255]
MsgMixed == [i \in 1..64 |-> (i * 37 + (i \div 4) * 101) % 256]

Hs   == { HInit, HOnes }
TFs  == { TFAbc, TFFirst, TFLast, TFNode }
Msgs == { MsgAbc, MsgCount, MsgOnes, MsgMixed }

HsCalls   == { HInit }
TFsCalls  == { TFFirst, TFLast }
MsgsCalls == { MsgAbc, MsgCount }

\* the four settings of the final-block flag f[0] and the last-node flag f[1]
TFNoFlag   == TFFirst
TFFinal    == TFLast
TFLastNode == <<0, 0, 0, 64>> \o <<0, 0, 0, 0>> \o <<0, 0, 0, 0>> \o <<255, 255, 255, 255>>
TFBoth     == <<0, 0, 0, 64>> \o <<0, 0, 0, 0>> \o <<255, 255, 255, 255>> \o <<255, 255, 255, 255>>

TFsFlags  == { TFNoFlag, TFFinal, TFLastNode, TFBoth }
MsgsFlags == { MsgMixed }

MaxCalls == 2

----------------------------------------------------------------------------
(* The state machine *)

\* a caller hands a context and a block to blake2s_compress
Enter(h, tf, m) ==
    /\ ctxH' = h
    /\ ctxTF' = tf
    /\ msg' = m
    /\ pc' = "entry"
    /\ k' = 0
    /\ order' = << >>
    /\ entry' = [ H |-> h, TF |-> tf, msg |-> m ]

Init ==
    /\ \E h \in Hs, tf \in TFs, m \in Msgs :
          /\ ctxH = h
          /\ ctxTF = tf
          /\ msg = m
          /\ entry = [ H |-> h, TF |-> tf, msg |-> m ]
    /\ pc = "entry"
    /\ k = 0
    /\ Hloc = << Zero16, Zero16 >>
    /\ va = Zero16 /\ vb = Zero16 /\ vc = Zero16 /\ vd = Zero16 /\ vpr = Zero16
    /\ msl = Zero16 \o Zero16 \o Zero16 \o Zero16
    /\ mv = << Zero16, Zero16, Zero16, Zero16 >>
    /\ m1 = Zero16 /\ m2 = Zero16 /\ m3 = Zero16 /\ m4 = Zero16
    /\ order = << >>
    /\ log = << >>
    /\ calls = 1

InitCalls ==
    /\ ctxH = HInit
    /\ ctxTF = Zero16
    /\ msg = MsgAbc
    /\ entry = [ H |-> HInit, TF |-> Zero16, msg |-> MsgAbc ]
    /\ pc = "idle"
    /\ k = 0
    /\ Hloc = << Zero16, Zero16 >>
    /\ va = Zero16 /\ vb = Zero16 /\ vc = Zero16 /\ vd = Zero16 /\ vpr = Zero16
    /\ msl = Zero16 \o Zero16 \o Zero16 \o Zero16
    /\ mv = << Zero16, Zero16, Zero16, Zero16 >>
    /\ m1 = Zero16 /\ m2 = Zero16 /\ m3 = Zero16 /\ m4 = Zero16
    /\ order = << >>
    /\ log = << >>
    /\ calls = 0

\* the caller starts another call, on the context as the last call left it
\* or on a freshly initialised one; the locals of the last call are stale
CallOn(HS, TFS, MS) ==
    /\ pc \in { "idle", "done" }
    /\ calls < MaxCalls
    /\ \E h \in HS \cup { ctxH }, tf \in TFS, m \in MS :
          Enter(h, tf, m)
    /\ calls' = calls + 1
    /\ UNCHANGED << Hloc, va, vb, vc, vd, vpr, msl, mv, m1, m2, m3, m4, log >>

Call == CallOn(HsCalls, TFsCalls, MsgsCalls)

\* a caller that varies the flags only
CallFlags == CallOn(HsCalls, TFsFlags, MsgsFlags)

\* blake2s_compress up to the call of blake2s_10rounds
Load ==
    /\ pc = "entry"
    /\ LET s == LoadState(ctxH, ctxTF)
       IN  /\ Hloc' = << s.H0, s.H1 >>
           /\ va' = s.H0
           /\ vb' = s.H1
           /\ vpr' = s.vpr
           /\ vc' = s.vc
           /\ vd' = s.vd
    /\ pc' = "loaded"
    /\ UNCHANGED << ctxH, ctxTF, msg, k, msl, mv, m1, m2, m3, m4, order, entry, log, calls >>

\* the byteslicing loop and the four loads of mv
Slice ==
    /\ pc = "loaded"
    /\ msl' = ByteSlice(msg)
    /\ mv' = LoadMv(msl')
    /\ pc' = "col"
    /\ UNCHANGED << ctxH, ctxTF, msg, k, Hloc, va, vb, vc, vd, vpr, m1, m2, m3, m4,
                    order, entry, log, calls >>

\* first half of the next FULLROUND statement: schedule, G on columns
ColumnHalf ==
    /\ pc = "col"
    /\ k < Len(Rounds)
    /\ \E r \in { Rounds[k + 1] } :
         \E ms \in { Schedule(r, mv) } :
           \E g \in { BLAKE2S_VG(ms[1], ms[2], va, vb, vc, vd) } :
              /\ m1' = ms[1] /\ m2' = ms[2] /\ m3' = ms[3] /\ m4' = ms[4]
              /\ va' = g[1] /\ vb' = g[2] /\ vc' = g[3] /\ vd' = g[4]
              /\ order' = Append(order, << r, "column" >>)
    /\ pc' = "diag"
    /\ UNCHANGED << ctxH, ctxTF, msg, k, Hloc, vpr, msl, mv, entry, log, calls >>

\* second half: rotate the lanes, G on diagonals, rotate back
DiagonalHalf ==
    /\ pc = "diag"
    /\ \E s \in { Diagonalize(<< va, vb, vc, vd >>) } :
         \E g \in { BLAKE2S_VG(m3, m4, s[1], s[2], s[3], s[4]) } :
           \E u \in { Undiagonalize(g) } :
              /\ va' = u[1] /\ vb' = u[2] /\ vc' = u[3] /\ vd' = u[4]
    /\ order' = Append(order, << Rounds[k + 1], "diagonal" >>)
    /\ k' = k + 1
    /\ pc' = "col"
    /\ UNCHANGED << ctxH, ctxTF, msg, Hloc, vpr, msl, mv, m1, m2, m3, m4,
                    entry, log, calls >>

\* after the last FULLROUND: xor the halves, hand va and vb back
Fold ==
    /\ pc = "col"
    /\ k = Len(Rounds)
    /\ va' = vec_xor(va, vc)
    /\ vb' = vec_xor(vb, vd)
    /\ pc' = "folded"
    /\ UNCHANGED << ctxH, ctxTF, msg, k, Hloc, vc, vd, vpr, msl, mv, m1, m2, m3, m4,
                    order, entry, log, calls >>

\* H[0] ^= va; H[1] ^= vb; the two stores into ctx->H
Store ==
    /\ pc = "folded"
    /\ Hloc' = << vec_xor(Hloc[1], va), vec_xor(Hloc[2], vb) >>
    /\ LET c == StoreH(ctxH, ctxTF, Hloc'[1], Hloc'[2])
       IN  /\ ctxH' = c.H
           /\ ctxTF' = c.TF
           /\ log' = Append(log, [ H |-> entry.H, TF |-> entry.TF, msg |-> entry.msg,
                                   out |-> c.H ])
    /\ pc' = "done"
    /\ UNCHANGED << msg, k, va, vb, vc, vd, vpr, msl, mv, m1, m2, m3, m4,
                    order, entry, calls >>

Compress == Load \/ Slice \/ ColumnHalf \/ DiagonalHalf \/ Fold \/ Store

Next == Compress \/ Call

Spec == Init /\ [][Compress]_vars

SpecCalls == InitCalls /\ [][Next]_vars

NextFlags == Compress \/ CallFlags

SpecFlags == InitCalls /\ [][NextFlags]_vars

----------------------------------------------------------------------------
(* The scalar reference: 32-bit words as pairs <<high 16 bits, low 16 bits>>, *)
(* a working state v[0..15] indexed by word, G with right rotations.          *)

\* u32 number i of a big-endian memory image (or lane i of a vector register)
WordAt(mem, i) ==
    << 256 * mem[4*i + 1] + mem[4*i + 2], 256 * mem[4*i + 3] + mem[4*i + 4] >>

\* little-endian word i of a block: msg[4i] + 2^8 msg[4i+1] + 2^16 msg[4i+2] + 2^24 msg[4i+3]
MsgWord(m, i) ==
    << m[4*i + 3] + 256 * m[4*i + 4], m[4*i + 1] + 256 * m[4*i + 2] >>

MsgWords(m) ==
    << MsgWord(m, 0),  MsgWord(m, 1),  MsgWord(m, 2),  MsgWord(m, 3),
       MsgWord(m, 4),  MsgWord(m, 5),  MsgWord(m, 6),  MsgWord(m, 7),
       MsgWord(m, 8),  MsgWord(m, 9),  MsgWord(m, 10), MsgWord(m, 11),
       MsgWord(m, 12), MsgWord(m, 13), MsgWord(m, 14), MsgWord(m, 15) >>

\* bit number e of a xor b, in place
BitXor(a, b, e) == (((a \div (2 ^ e)) + (b \div (2 ^ e))) % 2) * (2 ^ e)

\* a xor b for a, b < 2^16
Xor16(a, b) ==
      ( (BitXor(a, b, 0)  + BitXor(a, b, 1)  + BitXor(a, b, 2)  + BitXor(a, b, 3))
      + (BitXor(a, b, 4)  + BitXor(a, b, 5)  + BitXor(a, b, 6)  + BitXor(a, b, 7)) )
    + ( (BitXor(a, b, 8)  + BitXor(a, b, 9)  + BitXor(a, b, 10) + BitXor(a, b, 11))
      + (BitXor(a, b, 12) + BitXor(a, b, 13) + BitXor(a, b, 14) + BitXor(a, b, 15)) )

RefXor(x, y) == << Xor16(x[1], y[1]), Xor16(x[2], y[2]) >>

RefAdd(x, y) ==
    LET lo == x[2] + y[2]
    IN  << (x[1] + y[1] + (lo \div 65536)) % 65536, lo % 65536 >>

\* rotate right by n bits, 0 < n <= 16
RefRotr(x, n) ==
    IF n = 16 THEN << x[2], x[1] >>
    ELSE LET p == 2 ^ n
             q == 2 ^ (16 - n)
         IN  << (x[1] \div p) + (x[2] % p) * q, (x[2] \div p) + (x[1] % p) * q >>

RefG(a, b, c, d, M, N) ==
    LET a1 == RefAdd(RefAdd(a, b), M)
        d1 == RefRotr(RefXor(d, a1), 16)
        c1 == RefAdd(c, d1)
        b1 == RefRotr(RefXor(b, c1), 12)
        a2 == RefAdd(RefAdd(a1, b1), N)
        d2 == RefRotr(RefXor(d1, a2), 8)
        c2 == RefAdd(c1, d2)
        b2 == RefRotr(RefXor(b1, c2), 7)
    IN  << a2, b2, c2, d2 >>

\* the sigma schedule of RFC 7693, section 2.7
RfcSigma ==
    << <<  0,  1,  2,  3,  4,  5,  6,  7,  8,  9, 10, 11, 12, 13, 14, 15 >>,
       << 14, 10,  4,  8,  9, 15, 13,  6,  1, 12,  0,  2, 11,  7,  5,  3 >>,
       << 11,  8, 12,  0,  5,  2, 15, 13, 10, 14,  3,  6,  7,  1,  9,  4 >>,
       <<  7,  9,  3,  1, 13, 12, 11, 14,  2,  6,  5, 10,  4,  0, 15,  8 >>,
       <<  9,  0,  5,  7,  2,  4, 10, 15, 14,  1, 11, 12,  6,  8,  3, 13 >>,
       <<  2, 12,  6, 10,  0, 11,  8,  3,  4, 13,  7,  5, 15, 14,  1,  9 >>,
       << 12,  5,  1, 15, 14, 13,  4, 10,  0,  7,  6,  3,  9,  2,  8, 11 >>,
       << 13, 11,  7, 14, 12,  1,  3,  9,  5,  0, 15,  4,  8,  6,  2, 10 >>,
       <<  6, 15, 14,  9, 11,  3,  0,  8, 12,  2, 13,  7,  1,  4, 10,  5 >>,
       << 10,  2,  8,  4,  7,  6,  1,  5, 15, 11,  9, 14,  3, 12, 13,  0 >> >>

\* 0x6a09e667, 0xbb67ae85, 0x3c6ef372, 0xa54ff53a,
\* 0x510e527f, 0x9b05688c, 0x1f83d9ab, 0x5be0cd19
RefIV ==
    << <<27145, 58983>>, <<47975, 44677>>, <<15470, 62322>>, <<42319, 62778>>,
       <<20750, 21119>>, <<39685, 26764>>, <<8067, 55723>>,  <<23520, 52505>> >>

\* v with G applied to the words at indices i, j, l, n (0-based)
RefMix(v, i, j, l, n, M, N) ==
    LET g == RefG(v[i + 1], v[j + 1], v[l + 1], v[n + 1], M, N)
    IN  [v EXCEPT ![i + 1] = g[1], ![j + 1] = g[2], ![l + 1] = g[3], ![n + 1] = g[4]]

RefColumns(v, r, w) ==
    LET s(i) == w[RfcSigma[r + 1][i + 1] + 1]
        v1 == RefMix(v,  0, 4, 8,  12, s(0), s(1))
        v2 == RefMix(v1, 1, 5, 9,  13, s(2), s(3))
        v3 == RefMix(v2, 2, 6, 10, 14, s(4), s(5))
    IN  RefMix(v3, 3, 7, 11, 15, s(6), s(7))

RefDiagonals(v, r, w) ==
    LET s(i) == w[RfcSigma[r + 1][i + 1] + 1]
        v1 == RefMix(v,  0, 5, 10, 15, s(8),  s(9))
        v2 == RefMix(v1, 1, 6, 11, 12, s(10), s(11))
        v3 == RefMix(v2, 2, 7, 8,  13, s(12), s(13))
    IN  RefMix(v3, 3, 4, 9,  14, s(14), s(15))

\* the working state at the start of round 0 (section 4.1 of the specification)
RefInit(h, tf) ==
    << WordAt(h, 0), WordAt(h, 1), WordAt(h, 2), WordAt(h, 3),
       WordAt(h, 4), WordAt(h, 5), WordAt(h, 6), WordAt(h, 7),
       RefIV[1], RefIV[2], RefIV[3], RefIV[4],
       RefXor(RefIV[5], WordAt(tf, 0)), RefXor(RefIV[6], WordAt(tf, 1)),
       RefXor(RefIV[7], WordAt(tf, 2)), RefXor(RefIV[8], WordAt(tf, 3)) >>

\* the working state after n complete rounds
RECURSIVE RefRounds(_, _, _)
RefRounds(v, w, n) ==
    IF n = 0 THEN v
    ELSE CHOOSE x \in { RefDiagonals(c, n - 1, w) :
                        c \in { RefColumns(p, n - 1, w) :
                                p \in { RefRounds(v, w, n - 1) } } } : TRUE

RefV(n) ==
    CHOOSE x \in { RefRounds(v, w, n) :
                   v \in { RefInit(entry.H, entry.TF) }, w \in { MsgWords(entry.msg) } } : TRUE

\* the 16 words held by va, vb, vc, vd, lane l of va at v[l], of vb at v[4+l], ...
StateWords ==
    << WordAt(va, 0), WordAt(va, 1), WordAt(va, 2), WordAt(va, 3),
       WordAt(vb, 0), WordAt(vb, 1), WordAt(vb, 2), WordAt(vb, 3),
       WordAt(vc, 0), WordAt(vc, 1), WordAt(vc, 2), WordAt(vc, 3),
       WordAt(vd, 0), WordAt(vd, 1), WordAt(vd, 2), WordAt(vd, 3) >>

----------------------------------------------------------------------------
(* Claims *)

\* RFC 7693, appendix B: the chaining value of BLAKE2s-256("abc")
RfcAbcOut ==
    <<140, 94, 140, 80>> \o <<226, 20, 124, 50>> \o <<163, 43, 167, 225>> \o
    <<47, 69, 235, 78>> \o <<32, 139, 69, 55>> \o <<41, 58, 214, 158>> \o
    <<76, 155, 153, 77>> \o <<130, 89, 103, 134>>

\* C1: when a call has returned, H'[i] = H[i] xor v[i] xor v[i+8] for i in 0..7,
\* with v the working state the scalar reference reaches after 10 rounds from
\* the inputs of the call: the vectorized path and the reference agree.
C1_CompressEqualsReference ==
    pc = "done" =>
        \A v \in { RefV(10) } :
            \A i \in 0..7 :
                WordAt(ctxH, i) = RefXor(RefXor(WordAt(entry.H, i), v[i + 1]), v[i + 9])

\* a call has returned on the RFC 7693 "abc" inputs, with the RFC's result
C1_Witness ==
    /\ pc = "done"
    /\ entry = [ H |-> HInit, TF |-> TFAbc, msg |-> MsgAbc ]
    /\ ctxH = RfcAbcOut

\* C2: in round r, lane l of the column G receives (M, N) =
\* (w[sigma[r][2l]], w[sigma[r][2l+1]]) and lane l of the diagonal G receives
\* (w[sigma[r][8+2l]], w[sigma[r][9+2l]]), w[i] the little-endian word i of the block.
C2_OperandsAreSigmaWords ==
    pc = "diag" =>
        LET w == MsgWords(msg)
            s == blake2s_vsigma[k + 1]
        IN  \A l \in 0..3 :
                /\ WordAt(m1, l) = w[s[2*l + 1] + 1]
                /\ WordAt(m2, l) = w[s[2*l + 2] + 1]
                /\ WordAt(m3, l) = w[s[2*l + 9] + 1]
                /\ WordAt(m4, l) = w[s[2*l + 10] + 1]

\* the operands of the last round of a block whose 64 bytes are not symmetric
C2_Witness == pc = "diag" /\ k = 9 /\ msg = MsgMixed

\* C3: at the start of round 0, v[0..7] = H, v[8..11] = IV[0..3],
\* v[12..15] = IV[4..7] xor (t0, t1, f0, f1).
C3_InitialWorkingState ==
    pc = "loaded" =>
        /\ \A i \in 0..7 : StateWords[i + 1] = WordAt(ctxH, i)
        /\ \A i \in 0..3 : StateWords[i + 9] = RefIV[i + 1]
        /\ \A i \in 0..3 : StateWords[i + 13] = RefXor(RefIV[i + 5], WordAt(ctxTF, i))

\* the state is loaded from a context whose t[0], t[1], f[0], f[1] are all non-zero
C3_Witness == pc = "loaded" /\ ctxTF = TFNode /\ ctxH = HInit

\* C4: during and after a call, t, f and the block have the values they had
\* at the entry of the call; only ctx->H changes.
C4_OnlyHChanges ==
    pc # "idle" => (ctxTF = entry.TF /\ msg = entry.msg)

\* a call has returned and has changed H, on a context with non-zero t and f
C4_Witness == pc = "done" /\ ctxH # entry.H /\ entry.TF = TFNode

\* the counter words and the flag words of the 16 bytes t[0], t[1], f[0], f[1]
CounterOf(tf) == SubSeq(tf, 1, 8)
FlagsOf(tf) == SubSeq(tf, 9, 16)

\* C5: two completed calls with the same H, t and block and different flags
\* ended with different chaining values.
C5_FlagsChangeOutput ==
    \A i, j \in 1..Len(log) :
        ( /\ log[i].H = log[j].H
          /\ log[i].msg = log[j].msg
          /\ CounterOf(log[i].TF) = CounterOf(log[j].TF)
          /\ FlagsOf(log[i].TF) # FlagsOf(log[j].TF) )
        => log[i].out # log[j].out

\* two completed calls that differ in the flags only
C5_Witness ==
    \E i, j \in 1..Len(log) :
        /\ log[i].H = log[j].H
        /\ log[i].msg = log[j].msg
        /\ CounterOf(log[i].TF) = CounterOf(log[j].TF)
        /\ FlagsOf(log[i].TF) # FlagsOf(log[j].TF)

\* C6: two completed calls started from identical (H, t, f, block) ended with
\* identical H, whatever call ran before each of them.
C6_Deterministic ==
    \A i, j \in 1..Len(log) :
        ( /\ log[i].H = log[j].H
          /\ log[i].TF = log[j].TF
          /\ log[i].msg = log[j].msg )
        => log[i].out = log[j].out

\* a call repeated with the inputs of an earlier call, the locals of that call stale
C6_Witness ==
    \E i, j \in 1..Len(log) :
        /\ i < j
        /\ log[i].H = log[j].H
        /\ log[i].TF = log[j].TF
        /\ log[i].msg = log[j].msg

\* the 20 halves of rounds 0..9, column then diagonal, in order
FullOrder ==
    [ i \in 1..20 |-> << (i - 1) \div 2, IF i % 2 = 1 THEN "column" ELSE "diagonal" >> ]

\* the number of steps the call in progress has taken
Position ==
    CASE pc = "entry"  -> 0
      [] pc = "loaded" -> 1
      [] pc = "col"    -> 2 + 2 * k
      [] pc = "diag"   -> 3 + 2 * k
      [] pc = "folded" -> 3 + 2 * 10
      [] pc = "done"   -> 4 + 2 * 10

\* the call has a next step to take
CanStep ==
    \/ pc \in { "entry", "loaded", "diag", "folded" }
    \/ pc = "col" /\ (k < Len(Rounds) \/ k = Len(Rounds))

\* C7: every call runs rounds 0, 1, ..., 9 in this order, each a column half
\* followed by a diagonal half, none skipped or repeated; H is written only
\* after round 9, by the last step; and the call reaches that write: short of
\* it the call always has a next step, and every step is one step further.
C7_TenRoundsInOrder ==
    /\ [](Len(order) <= 20 /\ order = SubSeq(FullOrder, 1, Len(order)))
    /\ [](pc = "done" => order = FullOrder)
    /\ [](pc # "done" => CanStep)
    /\ [][ /\ Position' = Position + 1
           /\ ctxH' # ctxH => (order = FullOrder /\ pc' = "done") ]_vars

\* a call has returned after its 20 halves
C7_Witness == pc = "done" /\ Len(order) = 20 /\ ctxH # entry.H

BytesOK(v) == \A i \in 1..16 : v[i] \in 0..255

\* C8: in each lane, each application of BLAKE2S_VG (on columns, and on
\* diagonals) computes the specification's G, with additions modulo 2^32 and
\* right rotations by 16, 12, 8, 7; every lane stays a 32-bit value.
C8_GPerLane ==
    /\ [](BytesOK(va) /\ BytesOK(vb) /\ BytesOK(vc) /\ BytesOK(vd))
    /\ [][ /\ (pc = "col" /\ pc' = "diag") =>
                \A l \in 0..3 :
                    << WordAt(va', l), WordAt(vb', l), WordAt(vc', l), WordAt(vd', l) >>
                    = RefG(WordAt(va, l), WordAt(vb, l), WordAt(vc, l), WordAt(vd, l),
                           WordAt(m1', l), WordAt(m2', l))
           /\ (pc = "diag" /\ pc' = "col") =>
                \A l \in 0..3 :
                    << WordAt(va', l), WordAt(vb', (l + 1) % 4),
                       WordAt(vc', (l + 2) % 4), WordAt(vd', (l + 3) % 4) >>
                    = RefG(WordAt(va, l), WordAt(vb, (l + 1) % 4),
                           WordAt(vc, (l + 2) % 4), WordAt(vd, (l + 3) % 4),
                           WordAt(m3, l), WordAt(m4, l))
         ]_vars

\* G has been applied to all-ones words, where every addition wraps around
C8_Witness == pc = "diag" /\ k = 0 /\ entry.H = HOnes /\ entry.msg = MsgOnes

\* C9: at the start of every round and at the final xor, lane l of va, vb, vc,
\* vd holds v[l], v[4+l], v[8+l], v[12+l] of the reference after k rounds (G on
\* the four columns, then on the four diagonals); between the two halves it
\* holds the reference state after the column phase.
C9_LanesHoldColumns ==
    /\ pc = "col" => StateWords = RefV(k)
    /\ pc = "diag" =>
          \A v \in { RefV(k) }, w \in { MsgWords(entry.msg) } :
              StateWords = RefColumns(v, k, w)

\* the state before the final xor, after ten diagonal phases were undone
C9_Witness == pc = "col" /\ k = 10 /\ entry.msg = MsgMixed

\* the number of elements of sequence q equal to x
Count(q, x) == Cardinality({ i \in 1..Len(q) : q[i] = x })

\* the 16 operands of the round in progress: M and N of 4 lanes, both phases
Operands ==
    << WordAt(m1, 0), WordAt(m1, 1), WordAt(m1, 2), WordAt(m1, 3),
       WordAt(m2, 0), WordAt(m2, 1), WordAt(m2, 2), WordAt(m2, 3),
       WordAt(m3, 0), WordAt(m3, 1), WordAt(m3, 2), WordAt(m3, 3),
       WordAt(m4, 0), WordAt(m4, 1), WordAt(m4, 2), WordAt(m4, 3) >>

\* C10: every row of blake2s_vsigma is a permutation of 0..15, and in every
\* round the 16 operand slots of G hold the 16 message words, each as often
\* as it occurs in the block.
C10_SigmaPermutes ==
    /\ \A r \in 1..10 :
          /\ Len(blake2s_vsigma[r]) = 16
          /\ { blake2s_vsigma[r][i] : i \in 1..16 } = 0..15
    /\ pc = "diag" =>
          LET w == MsgWords(msg)
          IN  \A i \in 1..16 : Count(Operands, w[i]) = Count(w, w[i])

\* the operands of a round with a non-identity row, on a block of 16 distinct words
C10_Witness ==
    /\ pc = "diag"
    /\ k = 5
    /\ msg = MsgCount
    /\ Cardinality({ MsgWord(msg, i) : i \in 0..15 }) = 16

====
